---- MODULE Spec2Model ----
(***************************************************************************)
(* Model of EmailRepository (server/src/repositories/email.repository.ts): *)
(* createTransport, verifySmtp and sendEmail, with the nodemailer          *)
(* transport and the logger as the environment.                            *)
(*                                                                         *)
(* Optional values (TypeScript `x?: T`) are sequences: <<>> is undefined,  *)
(* <<v>> is the value v.  A string built by a template literal or by       *)
(* JSON.stringify is the sequence of its pieces (literal text and          *)
(* interpolated values), so that "the text contains s" is "a piece is s".  *)
(***************************************************************************)
EXTENDS Integers, Sequences, FiniteSets, TLC

VARIABLES calls, sessions

vars == <<calls, sessions>>

\* ---------------------------------------------------------------- bounds
MaxCalls == 2

MaxAttachments == 2

\* ------------------------------------------------------- optional values
None == <<>>

Some(v) == <<v>>

IsSet(o) == o # <<>>

\* JavaScript truthiness of an optional boolean / optional string
TruthyBool(o) == IsSet(o) /\ o[1]

TruthyStr(o) == IsSet(o) /\ o[1] # ""

\* ------------------------------------------------------------ formatting
Digit(d) == CASE d = 0 -> "0" [] d = 1 -> "1" [] d = 2 -> "2" [] d = 3 -> "3"
              [] d = 4 -> "4" [] d = 5 -> "5" [] d = 6 -> "6" [] d = 7 -> "7"
              [] d = 8 -> "8" [] OTHER -> "9"

RECURSIVE NatToStr(_)
NatToStr(n) == IF n < 10 THEN Digit(n) ELSE NatToStr(n \div 10) \o Digit(n % 10)

\* String(n) for an integer
NumToStr(n) == IF n < 0 THEN "-" \o NatToStr(0 - n) ELSE NatToStr(n)

BoolToStr(b) == IF b THEN "true" ELSE "false"

\* `${x}` for an optional number / boolean: undefined prints as "undefined"
InterpNum(o) == IF IsSet(o) THEN NumToStr(o[1]) ELSE "undefined"

InterpBool(o) == IF IsSet(o) THEN BoolToStr(o[1]) ELSE "undefined"

\* JSON.stringify of one property: omitted when the value is undefined,
\* strings are quoted
JsonStrProp(key, o) == IF IsSet(o) THEN <<key, "\"", o[1], "\"">> ELSE <<>>

JsonNumProp(key, o) == IF IsSet(o) THEN <<key, NumToStr(o[1])>> ELSE <<>>

JsonBoolProp(key, o) == IF IsSet(o) THEN <<key, BoolToStr(o[1])>> ELSE <<>>

\* Array.prototype.join over a list of texts
RECURSIVE Join(_, _)
Join(parts, sep) ==
  IF parts = <<>> THEN <<>>
  ELSE IF Len(parts) = 1 THEN parts[1]
  ELSE parts[1] \o <<sep>> \o Join(Tail(parts), sep)

Contains(text, s) == \E i \in 1..Len(text) : text[i] = s

\* ------------------------------------------------------- createTransport
Timeout == 10000

\* Variant: the default port chosen on `secure !== undefined`
ResolvePortOnDefined(options) ==
  IF IsSet(options.port) THEN options.port[1]
  ELSE IF IsSet(options.secure) THEN 465 ELSE 587

ResolvePort(options) ==
  IF IsSet(options.port) THEN options.port[1]
  ELSE IF TruthyBool(options.secure) THEN 465 ELSE 587

\* Variant: `options.secure || port === 465`
ResolveSecureOr(options, port) == TruthyBool(options.secure) \/ port = 465

ResolveSecure(options, port) ==
  IF IsSet(options.secure) THEN options.secure[1] ELSE port = 465

\* Variant: `port === 587` alone
RequireTLSByPort(secure, port) == port = 587

RequireTLS(secure, port) == ~secure /\ port = 587

\* Variant: `options.username && options.password`
ResolveAuthBoth(options) ==
  IF TruthyStr(options.username) /\ TruthyStr(options.password)
  THEN Some([user |-> options.username, pass |-> options.password])
  ELSE None

ResolveAuth(options) ==
  IF TruthyStr(options.username) \/ TruthyStr(options.password)
  THEN Some([user |-> options.username, pass |-> options.password])
  ELSE None

TransportConfig(options) ==
  LET port == ResolvePort(options)
      secure == ResolveSecure(options, port)
  IN [host |-> options.host,
      port |-> port,
      secure |-> secure,
      requireTLS |-> RequireTLS(secure, port),
      tls |-> [rejectUnauthorized |-> ~TruthyBool(options.ignoreCert)],
      auth |-> ResolveAuth(options),
      connectionTimeout |-> Timeout,
      greetingTimeout |-> Timeout,
      socketTimeout |-> Timeout,
      dnsTimeout |-> Timeout]

\* ------------------------------------------------------------ verifySmtp
Placeholder == "********"

NoneMarker == "(none)"

\* options.username ?? '(none)'
SafeUsername(options) ==
  IF IsSet(options.username) THEN options.username[1] ELSE NoneMarker

\* Variant: `options.password ?? '(none)'`, as for the username
SafePasswordRaw(options) ==
  IF IsSet(options.password) THEN options.password[1] ELSE NoneMarker

\* options.password ? '********' : '(none)'
SafePassword(options) ==
  IF TruthyStr(options.password) THEN Placeholder ELSE NoneMarker

SafeOpts(options) ==
  [host |-> Some(options.host),
   port |-> options.port,
   secure |-> options.secure,
   username |-> Some(SafeUsername(options)),
   password |-> Some(SafePassword(options)),
   ignoreCert |-> options.ignoreCert]

\* `Verifying SMTP connection to ${host}:${port} (secure=${secure})`
VerifyingMsg(options) ==
  <<"Verifying SMTP connection to ", options.host, ":", InterpNum(options.port),
    " (secure=", InterpBool(options.secure), ")">>

\* `SMTP options: ${JSON.stringify(safeOpts)}`
OptionsMsg(options) ==
  LET safeOpts == SafeOpts(options)
  IN <<"SMTP options: ", "{">>
     \o JsonStrProp("host", safeOpts.host)
     \o JsonNumProp("port", safeOpts.port)
     \o JsonBoolProp("secure", safeOpts.secure)
     \o JsonStrProp("username", safeOpts.username)
     \o JsonStrProp("password", safeOpts.password)
     \o JsonBoolProp("ignoreCert", safeOpts.ignoreCert)
     \o <<"}">>

\* `SMTP verification successful for ${host}:${port}`
SuccessMsg(options) ==
  <<"SMTP verification successful for ", options.host, ":", InterpNum(options.port)>>

\* Values a transport operation can fail with.  isError is `instanceof Error`;
\* for a value that is not an Error, message holds String(value).
StackOf(message) == <<"Error: ", message, "\n    at SMTPConnection">>

MkError(message, code, errno) ==
  [isError |-> TRUE, message |-> message, code |-> code, errno |-> errno,
   stack |-> Some(StackOf(message))]

ErrConnRefused == MkError("connect ECONNREFUSED", Some("ESOCKET"), Some(-111))

ErrEcho == MkError("hunter2", None, None)

ThrownString ==
  [isError |-> FALSE, message |-> "Greeting never received", code |-> None,
   errno |-> None, stack |-> None]

Errors == {ErrConnRefused, ErrEcho, ThrownString}

\* error instanceof Error ? error : new Error(String(error))
Normalize(error) ==
  IF error.isError THEN error ELSE MkError(error.message, None, None)

\* [message, code && `code=${code}`, errno !== undefined && `errno=${errno}`]
\*   .filter(Boolean).join(', ')
Details(err) ==
  LET parts == (IF err.message # "" THEN <<(<<err.message>>)>> ELSE <<>>)
            \o (IF TruthyStr(err.code) THEN <<(<<"code=", err.code[1]>>)>> ELSE <<>>)
            \o (IF IsSet(err.errno) THEN <<(<<"errno=", NumToStr(err.errno[1])>>)>> ELSE <<>>)
  IN Join(parts, ", ")

\* `SMTP verification failed for ${host}:${port}: ${details}`
FailedMsg(options, err) ==
  <<"SMTP verification failed for ", options.host, ":", InterpNum(options.port), ": ">>
  \o Details(err)

\* Variant: `throw err`, the value normalised for logging
VerifyRejectionNormalized(error) == Normalize(error)

\* `throw error` in the catch block: the caught value itself
VerifyRejection(error) == error

\* ------------------------------------------------------------- sendEmail
\* `Sending email to ${to} with subject: ${subject}`
SendingMsg(mail) == <<"Sending email to ", mail.to, " with subject: ", mail.subject>>

\* Variant: the content id taken from the file name
MapAttachmentCidFromName(attachment) ==
  [filename |-> attachment.filename, path |-> attachment.path, cid |-> attachment.filename]

MapAttachment(attachment) ==
  [filename |-> attachment.filename, path |-> attachment.path, cid |-> attachment.cid]

\* imageAttachments?.map(...)
MapAttachments(imageAttachments) ==
  IF IsSet(imageAttachments)
  THEN Some([i \in 1..Len(imageAttachments[1]) |-> MapAttachment(imageAttachments[1][i])])
  ELSE None

Envelope(mail) ==
  [to |-> mail.to, from |-> mail.from, subject |-> mail.subject,
   html |-> mail.html, text |-> mail.text,
   attachments |-> MapAttachments(mail.imageAttachments)]

\* Variant: a failed send is caught and the promise resolves with nothing
SendOutcomeSwallowed(r) ==
  [status |-> "resolved", value |-> IF r.ok THEN Some(r.value) ELSE None]

\* What the promise returned by sendEmail settles to: it is the promise of
\* transport.sendMail itself
SendOutcome(r) ==
  [status |-> IF r.ok THEN "resolved" ELSE "rejected", value |-> Some(r.value)]

\* ------------------------------------------------- the nodemailer session
\* One record per transport object made by nodemailer's createTransport, in
\* creation order.  closes counts close() calls; inflight says that a verify
\* or sendMail started on it has not settled yet.
NewSession(c, config) ==
  [config |-> config, owner |-> c, closes |-> 0, closedBy |-> {}, usedBy |-> {},
   inflight |-> FALSE, closedInFlight |-> FALSE, verifies |-> 0, mails |-> <<>>,
   settled |-> None]

\* this.createTransport(options)
CreateTransport(ss, c, options) == Append(ss, NewSession(c, TransportConfig(options)))

\* transport.verify()
TransportVerify(ss, sid, c) ==
  [ss EXCEPT ![sid].inflight = TRUE, ![sid].usedBy = @ \cup {c}, ![sid].verifies = @ + 1]

\* transport.sendMail(envelope)
TransportSendMail(ss, sid, c, envelope) ==
  [ss EXCEPT ![sid].inflight = TRUE, ![sid].usedBy = @ \cup {c},
             ![sid].mails = Append(@, envelope)]

\* the promise of verify / sendMail settles (or the call throws) with r
TransportSettle(ss, sid, r) ==
  [ss EXCEPT ![sid].inflight = FALSE, ![sid].settled = Some(r)]

\* Variant: close() reaches the transport made last, as if the transport were
\* kept in a field of the repository instead of a local of the call.
TransportCloseLatest(ss, sid, c) ==
  [ss EXCEPT ![Len(ss)].closes = @ + 1, ![Len(ss)].closedBy = @ \cup {c},
             ![Len(ss)].closedInFlight = @ \/ ss[Len(ss)].inflight]

\* transport.close()
TransportClose(ss, sid, c) ==
  [ss EXCEPT ![sid].closes = @ + 1, ![sid].closedBy = @ \cup {c},
             ![sid].closedInFlight = @ \/ ss[sid].inflight]

\* ------------------------------------------------------------------ state
CallIds == 1..MaxCalls

Ev(name) == [ev |-> name, level |-> "", msg |-> <<>>, stack |-> None]

\* this.logger.<level>(msg, stack?)
Log(level, msg, stack) == [ev |-> "log", level |-> level, msg |-> msg, stack |-> stack]

NoOutcome == [status |-> "none", value |-> None]

Pending == [status |-> "pending", value |-> None]

IdleCall ==
  [kind |-> "none", pc |-> "idle", options |-> None, mail |-> None, transport |-> 0,
   outcome |-> NoOutcome, trace |-> <<>>]

Init ==
  /\ calls = [c \in CallIds |-> IdleCall]
  /\ sessions = <<>>

\* ----------------------------------------------------------------- inputs
Opt(S) == {None} \cup {Some(v) : v \in S}

Hosts == {"smtp.example.com"}

Ports == {0, 25, 465, 587}

Usernames == {"", "alice", "hunter2"}

Passwords == {"", "hunter2"}

SmtpOptions ==
  [host : Hosts, port : Opt(Ports), secure : Opt(BOOLEAN), username : Opt(Usernames),
   password : Opt(Passwords), ignoreCert : Opt({TRUE})]

\* settings used where several calls interleave
RelayOptions ==
  {[host |-> "smtp.example.com", port |-> None, secure |-> Some(TRUE),
    username |-> Some("alice"), password |-> Some("hunter2"), ignoreCert |-> None],
   [host |-> "smtp.example.com", port |-> Some(587), secure |-> None,
    username |-> None, password |-> None, ignoreCert |-> Some(TRUE)]}

ImageA == [filename |-> "a.png", path |-> "/thumbs/a.png", cid |-> "cid-a"]

ImageB == [filename |-> "b.png", path |-> "/thumbs/b.png", cid |-> "cid-b"]

Images == {ImageA, ImageB}

ImageLists == UNION {[1..n -> Images] : n \in 0..MaxAttachments}

MkMail(imageAttachments) ==
  [to |-> "ann@example.com", from |-> "immich@example.com", subject |-> "Welcome",
   html |-> "<p>Hi Ann</p>", text |-> "Hi Ann", imageAttachments |-> imageAttachments]

Mails == {MkMail(a) : a \in Opt(ImageLists)}

PlainMails == {MkMail(None), MkMail(Some(<<ImageA>>))}

Receipts == {[messageId |-> "<1@immich>", response |-> "250 OK"]}

\* how a verify settles
Verified == [verified |-> TRUE]

VerifyResults ==
  {[ok |-> TRUE, value |-> Verified]} \cup {[ok |-> FALSE, value |-> e] : e \in Errors}

\* how a sendMail settles
SendResults ==
  {[ok |-> TRUE, value |-> r] : r \in Receipts} \cup {[ok |-> FALSE, value |-> e] : e \in Errors}

\* ---------------------------------------------------------------- actions
\* verifySmtp up to `await transport.verify()`
VerifySmtp(c, options) ==
  LET sid == Len(sessions) + 1
  IN /\ calls[c].pc = "idle"
     /\ sessions' = TransportVerify(CreateTransport(sessions, c, options), sid, c)
     /\ calls' = [calls EXCEPT ![c] =
          [kind |-> "verify", pc |-> "awaiting", options |-> Some(options),
           mail |-> None, transport |-> sid, outcome |-> Pending,
           trace |-> <<Log("log", VerifyingMsg(options), None),
                       Log("debug", OptionsMsg(options), None),
                       Ev("createTransport"), Ev("verify")>>]]

\* verifySmtp from the settling of verify() to its end: the rest of the try
\* block or the catch block, then the finally block
VerifySmtpResume(c, r) ==
  LET sid == calls[c].transport
      options == calls[c].options[1]
      err == Normalize(r.value)
  IN /\ calls[c].pc = "awaiting"
     /\ calls[c].kind = "verify"
     /\ sessions' = TransportClose(TransportSettle(sessions, sid, r), sid, c)
     /\ calls' = [calls EXCEPT ![c].pc = "done",
          ![c].outcome =
             IF r.ok THEN [status |-> "resolved", value |-> Some(TRUE)]
             ELSE [status |-> "rejected", value |-> Some(VerifyRejection(r.value))],
          ![c].trace = @ \o
             (IF r.ok
              THEN <<Ev("verifyOk"), Log("log", SuccessMsg(options), None)>>
              ELSE <<Ev("verifyFail"), Log("error", FailedMsg(options, err), err.stack)>>)
             \o <<Ev("close"), Ev(IF r.ok THEN "resolve" ELSE "reject")>>]

\* sendEmail, whole: it is not an async function, so it runs to its return
\* without suspending; sendMail's promise is returned and the finally block
\* closes the transport before that promise settles
SendEmail(c, mail, options) ==
  LET sid == Len(sessions) + 1
  IN /\ calls[c].pc = "idle"
     /\ sessions' = TransportClose(
                      TransportSendMail(CreateTransport(sessions, c, options),
                                        sid, c, Envelope(mail)),
                      sid, c)
     /\ calls' = [calls EXCEPT ![c] =
          [kind |-> "send", pc |-> "awaiting", options |-> Some(options),
           mail |-> Some(mail), transport |-> sid, outcome |-> Pending,
           trace |-> <<Log("debug", SendingMsg(mail), None), Ev("createTransport"),
                       Ev("sendMail"), Ev("close"), Ev("return")>>]]

\* sendEmail when sendMail throws instead of returning a promise: the finally
\* block runs and the exception leaves sendEmail
SendEmailThrows(c, mail, options, e) ==
  LET sid == Len(sessions) + 1
  IN /\ calls[c].pc = "idle"
     /\ sessions' = TransportClose(
                      TransportSettle(
                        TransportSendMail(CreateTransport(sessions, c, options),
                                          sid, c, Envelope(mail)),
                        sid, [ok |-> FALSE, value |-> e]),
                      sid, c)
     /\ calls' = [calls EXCEPT ![c] =
          [kind |-> "send", pc |-> "done", options |-> Some(options),
           mail |-> Some(mail), transport |-> sid,
           outcome |-> [status |-> "threw", value |-> Some(e)],
           trace |-> <<Log("debug", SendingMsg(mail), None), Ev("createTransport"),
                       Ev("sendMail"), Ev("sendFail"), Ev("close"), Ev("throw")>>]]

\* the promise that sendEmail returned settles
SendMailSettles(c, r) ==
  LET sid == calls[c].transport
  IN /\ calls[c].pc = "awaiting"
     /\ calls[c].kind = "send"
     /\ sessions' = TransportSettle(sessions, sid, r)
     /\ calls' = [calls EXCEPT ![c].pc = "done",
          ![c].outcome = SendOutcome(r),
          ![c].trace = @ \o (IF r.ok THEN <<Ev("sendOk"), Ev("resolve")>>
                                      ELSE <<Ev("sendFail"), Ev("reject")>>)]

\* --------------------------------------------------------- specifications
\* Calls made in any interleaving
Next ==
  \/ \E c \in CallIds, o \in RelayOptions : VerifySmtp(c, o)
  \/ \E c \in CallIds, r \in VerifyResults : VerifySmtpResume(c, r)
  \/ \E c \in CallIds, m \in PlainMails, o \in RelayOptions : SendEmail(c, m, o)
  \/ \E c \in CallIds, m \in PlainMails, o \in RelayOptions, e \in Errors :
       SendEmailThrows(c, m, o, e)
  \/ \E c \in CallIds, r \in SendResults : SendMailSettles(c, r)

Spec == Init /\ [][Next]_vars

\* One call, over every combination of settings and attachments.  (The
\* inputs of a call are enumerated only while the call has not been made,
\* which is the guard of the actions that start it.)
IfIdle(S) == IF calls[1].pc = "idle" THEN S ELSE {}

NextSingle ==
  \/ \E o \in IfIdle(SmtpOptions) : VerifySmtp(1, o)
  \/ \E r \in VerifyResults : VerifySmtpResume(1, r)
  \/ \E m \in IfIdle(Mails), o \in SmtpOptions : SendEmail(1, m, o)
  \/ \E m \in IfIdle(Mails), o \in SmtpOptions, e \in Errors : SendEmailThrows(1, m, o, e)
  \/ \E r \in SendResults : SendMailSettles(1, r)

SpecSingle == Init /\ [][NextSingle]_vars

\* ------------------------------------------------------------- properties
SessionIds == 1..Len(sessions)

\* positions of the events named in names in a call's trace
Pos(trace, names) == {i \in 1..Len(trace) : trace[i].ev \in names}

LogPos(trace, level) ==
  {i \in 1..Len(trace) : trace[i].ev = "log" /\ trace[i].level = level}

SessionOf(c) == sessions[calls[c].transport]

\* C1: in sendEmail the transport is closed only after the send has resolved
\* or failed: every close event of a sendEmail call is preceded, in that
\* call's trace, by the completion event of its send.
C1_CloseAfterSendCompletes ==
  \A c \in CallIds :
    calls[c].kind = "send" =>
      \A i \in Pos(calls[c].trace, {"close"}) :
        \E j \in Pos(calls[c].trace, {"sendOk", "sendFail"}) : j < i

\* C2: every session is closed at most once, and only closed and used by the
\* call that opened it; no two calls hold the same session; and when a call
\* has finished, the one session it opened has been closed exactly once.
C2_ClosedExactlyOnce ==
  /\ \A s \in SessionIds :
       /\ sessions[s].closes <= 1
       /\ sessions[s].closedBy \subseteq {sessions[s].owner}
       /\ sessions[s].usedBy \subseteq {sessions[s].owner}
  /\ \A c, d \in CallIds :
       (c # d /\ calls[c].pc # "idle" /\ calls[d].pc # "idle")
         => calls[c].transport # calls[d].transport
  /\ \A c \in CallIds :
       calls[c].pc = "done" =>
         /\ calls[c].transport \in SessionIds
         /\ SessionOf(c).owner = c
         /\ SessionOf(c).closes = 1
         /\ {s \in SessionIds : sessions[s].owner = c} = {calls[c].transport}

\* a verifySmtp call is still waiting for its verify while a sendEmail call
\* that began after it has already failed and finished
C2_Witness ==
  /\ calls[1].kind = "verify" /\ calls[1].pc = "awaiting" /\ calls[1].transport = 1
  /\ calls[2].kind = "send" /\ calls[2].pc = "done" /\ calls[2].transport = 2
  /\ calls[2].outcome.status = "rejected"
  /\ sessions[2].closes = 1 /\ sessions[1].closes = 0

\* C3: a verifySmtp call whose verify failed has logged at error level after
\* the failure and before the close, which precedes the rejection, and it
\* rejects with the very value verify raised; a call whose verify succeeded
\* resolves to true and has logged nothing at error level; and verifySmtp
\* resolves only if verify succeeded.
C3_VerifyFailureLoggedAndRethrown ==
  \A c \in CallIds :
    (calls[c].kind = "verify" /\ calls[c].pc = "done") =>
      LET t == calls[c].trace
          r == SessionOf(c).settled[1]
      IN IF r.ok
         THEN /\ calls[c].outcome = [status |-> "resolved", value |-> Some(TRUE)]
              /\ LogPos(t, "error") = {}
         ELSE /\ calls[c].outcome.status = "rejected"
              /\ calls[c].outcome.value = Some(r.value)
              /\ \E i \in Pos(t, {"verifyFail"}), j \in LogPos(t, "error"),
                    k \in Pos(t, {"close"}), l \in Pos(t, {"reject"}) :
                   i < j /\ j < k /\ k < l
              /\ \A k \in Pos(t, {"close", "reject"}) :
                   \E j \in LogPos(t, "error") : j < k

\* verify failed with a value that is not an Error and the call has rejected
C3_Witness ==
  \E c \in CallIds :
    /\ calls[c].kind = "verify" /\ calls[c].pc = "done"
    /\ calls[c].outcome = [status |-> "rejected", value |-> Some(ThrownString)]
    /\ LogPos(calls[c].trace, "error") # {}

\* C10: a sendEmail call opens exactly one session and makes exactly one send
\* attempt on it, with the envelope of its own mail; when the send fails the
\* caller gets that failure unchanged, when it succeeds the caller gets the
\* receipt.
C10_OneSessionOneAttempt ==
  \A c \in CallIds :
    calls[c].kind = "send" =>
      /\ {s \in SessionIds : sessions[s].owner = c} = {calls[c].transport}
      /\ SessionOf(c).mails = <<Envelope(calls[c].mail[1])>>
      /\ SessionOf(c).verifies = 0
      /\ Cardinality(Pos(calls[c].trace, {"sendMail"})) = 1
      /\ Cardinality(Pos(calls[c].trace, {"createTransport"})) = 1
      /\ calls[c].pc = "done" =>
           LET r == SessionOf(c).settled[1]
           IN /\ calls[c].outcome.value = Some(r.value)
              /\ IF r.ok THEN calls[c].outcome.status = "resolved"
                 ELSE calls[c].outcome.status \in {"rejected", "threw"}

\* a sendEmail call failed, and a sendEmail call made after it succeeded
C10_Witness ==
  /\ calls[1].kind = "send" /\ calls[1].pc = "done" /\ calls[1].transport = 1
  /\ calls[1].outcome = [status |-> "rejected", value |-> Some(ErrConnRefused)]
  /\ calls[2].kind = "send" /\ calls[2].pc = "done" /\ calls[2].transport = 2
  /\ calls[2].outcome.status = "resolved"
  /\ Len(sessions[1].mails) = 1 /\ Len(sessions[2].mails) = 1

\* the transport configuration a call's session was made with
ConfigOf(c) == SessionOf(c).config

Started(c) == calls[c].pc # "idle"

\* C5: no transport configuration has both secure (implicit TLS) and
\* requireTLS (required STARTTLS) true.
C5_NeverBothTlsModes ==
  \A s \in SessionIds : ~(sessions[s].config.secure /\ sessions[s].config.requireTLS)

\* port 587 supplied together with secure = true
C5_Witness ==
  \E c \in CallIds :
    /\ Started(c)
    /\ calls[c].options[1].port = Some(587) /\ calls[c].options[1].secure = Some(TRUE)
    /\ ConfigOf(c).secure /\ ~ConfigOf(c).requireTLS

\* C6: with port unset, secure unset or false gives port 587 without implicit
\* TLS and with STARTTLS required; secure true gives port 465 with implicit
\* TLS and STARTTLS not required; so exactly one of the two modes is on.
C6_DefaultPortAndMode ==
  \A c \in CallIds :
    (Started(c) /\ ~IsSet(calls[c].options[1].port)) =>
      /\ IF TruthyBool(calls[c].options[1].secure)
         THEN ConfigOf(c).port = 465 /\ ConfigOf(c).secure /\ ~ConfigOf(c).requireTLS
         ELSE ConfigOf(c).port = 587 /\ ~ConfigOf(c).secure /\ ConfigOf(c).requireTLS
      /\ ConfigOf(c).secure # ConfigOf(c).requireTLS

\* port unset and secure = false
C6_Witness ==
  \E c \in CallIds :
    /\ Started(c)
    /\ calls[c].options[1].port = None /\ calls[c].options[1].secure = Some(FALSE)
    /\ ConfigOf(c).port = 587 /\ ConfigOf(c).requireTLS

\* C7: a supplied port is the resolved port, a supplied secure is the
\* resolved secure, whatever the other field is; an unset secure is inferred
\* as "the resolved port is 465".
C7_ExplicitOverridesInference ==
  \A c \in CallIds :
    Started(c) =>
      LET o == calls[c].options[1]
      IN /\ IsSet(o.port) => ConfigOf(c).port = o.port[1]
         /\ IsSet(o.secure) => ConfigOf(c).secure = o.secure[1]
         /\ ~IsSet(o.secure) => ConfigOf(c).secure = (ConfigOf(c).port = 465)

\* port 465 supplied together with secure = false
C7_Witness ==
  \E c \in CallIds :
    /\ Started(c)
    /\ calls[c].options[1].port = Some(465) /\ calls[c].options[1].secure = Some(FALSE)
    /\ ConfigOf(c).port = 465 /\ ~ConfigOf(c).secure

\* C8: auth is present iff the username or the password is a non-empty
\* string, and then its user and pass are the supplied username and password.
C8_AuthIffCredentials ==
  \A c \in CallIds :
    Started(c) =>
      LET o == calls[c].options[1]
      IN /\ IsSet(ConfigOf(c).auth) <=> (TruthyStr(o.username) \/ TruthyStr(o.password))
         /\ IsSet(ConfigOf(c).auth) =>
              /\ ConfigOf(c).auth[1].user = o.username
              /\ ConfigOf(c).auth[1].pass = o.password

\* a password without a username
C8_Witness ==
  \E c \in CallIds :
    /\ Started(c)
    /\ calls[c].options[1].username = None /\ calls[c].options[1].password = Some("hunter2")
    /\ IsSet(ConfigOf(c).auth)

\* C9: the envelope given to sendMail has the image attachments of the call,
\* as many, in the same order, each with its filename, path and cid; with no
\* image attachments given it has none.
C9_AttachmentsPreserved ==
  \A c \in CallIds :
    calls[c].kind = "send" =>
      LET given == calls[c].mail[1].imageAttachments
          sent == SessionOf(c).mails[1].attachments
      IN IF IsSet(given)
         THEN /\ IsSet(sent)
              /\ Len(sent[1]) = Len(given[1])
              /\ \A i \in 1..Len(given[1]) :
                   /\ sent[1][i].filename = given[1][i].filename
                   /\ sent[1][i].path = given[1][i].path
                   /\ sent[1][i].cid = given[1][i].cid
         ELSE sent = None

\* two different images, given in the order b, a
C9_Witness ==
  \E c \in CallIds :
    /\ calls[c].kind = "send"
    /\ calls[c].mail[1].imageAttachments = Some(<<ImageB, ImageA>>)
    /\ Len(SessionOf(c).mails[1].attachments[1]) = 2

\* the log entries of a call
LogsOf(c) == {i \in 1..Len(calls[c].trace) : calls[c].trace[i].ev = "log"}

\* the text after `key` in a JSON rendering whose string values are quoted
JsonValue(text, key) ==
  text[(CHOOSE i \in 1..Len(text) : text[i] = key /\ \A j \in 1..(i - 1) : text[j] # key) + 2]

DebugMsg(c) == calls[c].trace[CHOOSE i \in LogPos(calls[c].trace, "debug") : TRUE].msg

\* the values other than the password that verifySmtp puts into its log
\* messages: the host, the username, and the text of the error verify raised
OtherLoggedValues(c) ==
  LET o == calls[c].options[1]
  IN {o.host}
     \cup (IF IsSet(o.username) THEN {o.username[1]} ELSE {})
     \cup (IF calls[c].pc = "done" /\ ~SessionOf(c).settled[1].ok
           THEN LET err == Normalize(SessionOf(c).settled[1].value)
                IN {err.message} \cup (IF IsSet(err.code) THEN {err.code[1]} ELSE {})
           ELSE {})

====
